---- MODULE Spec2Model ----
(***************************************************************************)
(* Model of backend/dhcp_manager.py (class DhcpManager): the reservation   *)
(* engine over the Kea DHCP4 configuration document.                       *)
(*                                                                         *)
(* Text (Python str) is a sequence of one-character strings, so that       *)
(* split(), int(), lower(), strip() and the f-string formatting of the     *)
(* allocation scan are modelled by what they do.  The alphabet of the      *)
(* model is: the digits, a-f, A-F, z, Z, ".", ":", "-", "+" and " ".       *)
(* A falsy Python str/None (None or '') is the empty sequence.             *)
(***************************************************************************)
EXTENDS Integers, Sequences, FiniteSets, TLC

VARIABLES config, lease_db, current_time, workers, last, calls

vars == <<config, lease_db, current_time, workers, last, calls>>

(***************************************************************************)
(* Bounds of the model: the number of mutation calls in one behaviour, on  *)
(* the small documents (Spec) and on the document whose reserved range is  *)
(* fully occupied (SpecFull).                                              *)
(***************************************************************************)
MaxCalls == 2

MaxCallsFull == 2

\* the number of calls on the documents and collaborators of SpecFaults
MaxCallsFaults == 1

\* the number of records of the lease database of SpecLeases
MaxRows == 3

\* the number of characters of the last component of the address texts of SpecAddress
MaxOctetLen == 3

\* the number of add_reservation calls in one behaviour of SpecMac
MaxCallsMac == 2

----------------------------------------------------------------------------
(* Python str primitives                                                   *)

DecDigits == <<"0", "1", "2", "3", "4", "5", "6", "7", "8", "9">>

HexLower == <<"0", "1", "2", "3", "4", "5", "6", "7", "8", "9", "a", "b", "c", "d", "e", "f">>

DecValueOf == [c \in {DecDigits[i] : i \in 1..10} |-> (CHOOSE i \in 1..10 : DecDigits[i] = c) - 1]

IsDecDigit(c) == c \in DOMAIN DecValueOf

DecValue(c) == DecValueOf[c]

\* the upper-case letters of the alphabet and their lower-case letters
LowerOf ==
    [c \in {"A", "B", "C", "D", "E", "F", "Z"} |->
        CASE c = "A" -> "a" [] c = "B" -> "b" [] c = "C" -> "c" [] c = "D" -> "d"
          [] c = "E" -> "e" [] c = "F" -> "f" [] c = "Z" -> "z"]

lower_char(c) == IF c \in DOMAIN LowerOf THEN LowerOf[c] ELSE c

\* str.lower()
lower(s) == [i \in 1..Len(s) |-> lower_char(s[i])]

HexDigits == {HexLower[i] : i \in 1..16}

IsHexDigit(c) == lower_char(c) \in HexDigits

\* str.replace(old, new) for one-character old and new
replace(s, old, new) == [i \in 1..Len(s) |-> IF s[i] = old THEN new ELSE s[i]]

RECURSIVE find_from(_, _, _)
find_from(s, sep, i) ==
    IF i + Len(sep) - 1 > Len(s) THEN 0
    ELSE IF s[i] = sep[1] /\ SubSeq(s, i, i + Len(sep) - 1) = sep THEN i
    ELSE find_from(s, sep, i + 1)

\* str.find(sep) counted from 1: the first occurrence of sep in s, 0 when absent
find(s, sep) == find_from(s, sep, 1)

RECURSIVE split(_, _)
\* str.split(sep): always at least one part, empty parts are kept
split(s, sep) ==
    LET i == find(s, sep)
    IN  IF i = 0 THEN <<s>>
        ELSE <<SubSeq(s, 1, i - 1)>> \o split(SubSeq(s, i + Len(sep), Len(s)), sep)

RECURSIVE lstrip(_)
lstrip(s) == IF s # <<>> /\ Head(s) = " " THEN lstrip(Tail(s)) ELSE s

RECURSIVE rstrip(_)
rstrip(s) == IF s # <<>> /\ s[Len(s)] = " " THEN rstrip(SubSeq(s, 1, Len(s) - 1)) ELSE s

\* str.strip()
strip(s) == rstrip(lstrip(s))

RECURSIVE DecNumber(_)
DecNumber(s) == IF s = <<>> THEN 0 ELSE 10 * DecNumber(SubSeq(s, 1, Len(s) - 1)) + DecValue(s[Len(s)])

\* int(text): <<>> when it raises ValueError, else <<value>>.  Surrounding
\* whitespace and one leading sign are accepted, then one or more digits.
int(text) ==
    LET t == strip(text)
        signed == t # <<>> /\ Head(t) \in {"+", "-"}
        body == IF signed THEN Tail(t) ELSE t
    IN  IF body = <<>> \/ \E i \in 1..Len(body) : ~IsDecDigit(body[i]) THEN <<>>
        ELSE IF signed /\ Head(t) = "-" THEN <<0 - DecNumber(body)>>
        ELSE <<DecNumber(body)>>

\* int(text, 16) does not raise ValueError (the value itself is never used)
int16_ok(text) ==
    LET t == strip(text)
        signed == t # <<>> /\ Head(t) \in {"+", "-"}
        body == IF signed THEN Tail(t) ELSE t
    IN  body # <<>> /\ \A i \in 1..Len(body) : IsHexDigit(body[i])

RECURSIVE str(_)
\* f"{n}" of a non-negative int
str(n) == IF n < 10 THEN <<DecDigits[n + 1]>> ELSE str(n \div 10) \o <<DecDigits[(n % 10) + 1]>>

----------------------------------------------------------------------------
(* Address arithmetic                                                      *)

_validate_ip_address(ip) ==
    LET parts == split(ip, <<".">>)
        num == [i \in 1..Len(parts) |-> int(parts[i])]
    IN  /\ Len(parts) = 4
        /\ \A i \in 1..4 : num[i] # <<>> /\ num[i][1] >= 0 /\ num[i][1] <= 255

_validate_mac_address(mac) ==
    LET parts == split(replace(mac, ":", "-"), <<"-">>)
    IN  /\ Len(parts) = 6
        /\ \A i \in 1..6 : int16_ok(parts[i])

(* A Python int that is an address ordinal exceeds the 32-bit integers of  *)
(* the checker, so an ordinal n is kept exactly as the pair                *)
(* <<n \div 65536, n % 65536>>; int_le is <= on the ordinals denoted.      *)
int_le(m, n) == m[1] < n[1] \/ (m[1] = n[1] /\ m[2] <= n[2])

\* n - 1
int_pred(n) == IF n[2] = 0 THEN <<n[1] - 1, 65535>> ELSE <<n[1], n[2] - 1>>

\* <<>> for None, else <<ordinal>>
_ip_to_int(ip) ==
    LET parts == split(ip, <<".">>)
        num == [i \in 1..Len(parts) |-> int(parts[i])]
    IN  IF Len(parts) # 4 \/ \E i \in 1..4 : num[i] = <<>> THEN <<>>
        ELSE LET high == num[1][1] * 256 + num[2][1]
                 low == num[3][1] * 256 + num[4][1]
             IN  << <<high + (low \div 65536), low % 65536>> >>

_get_reserved_range ==
    << <<"1", "9", "2", ".", "1", "6", "8", ".", "1", "2", "3", ".", "2">>,
       <<"1", "9", "2", ".", "1", "6", "8", ".", "1", "2", "3", ".", "4", "9">> >>

\* the f-string of the allocation scan: the four bytes of ip_int, dotted
int_to_ip(ip_int) ==
    str((ip_int[1] \div 256) % 256) \o <<".">> \o str(ip_int[1] % 256) \o <<".">>
      \o str((ip_int[2] \div 256) % 256) \o <<".">> \o str(ip_int[2] % 256)

\* the ordinal of the text formatted back, as the allocation scan formats
\* an ordinal; <<>> when _ip_to_int returns None
formatted_back(ip) == IF _ip_to_int(ip) = <<>> THEN <<>> ELSE <<int_to_ip(_ip_to_int(ip)[1])>>

----------------------------------------------------------------------------
(* The configuration document                                              *)
(*                                                                         *)
(* A document is the parsed JSON object: [Dhcp4 |-> [subnet4 |-> <<...>>]],*)
(* a subnet is a record with the key pools (a list of [pool |-> text]) and,*)
(* when present, the key reservations; a reservation is a record with the  *)
(* keys hw_address and ip_address and, when present, hostname.             *)

\* dict.get(key, '') and dict.get(key, [])
dict_get(d, key) == IF key \in DOMAIN d THEN d[key] ELSE <<>>

\* config.get('Dhcp4', {}).get('subnet4', [])
subnet4_of(cfg) ==
    IF "Dhcp4" \in DOMAIN cfg /\ "subnet4" \in DOMAIN cfg.Dhcp4 THEN cfg.Dhcp4.subnet4 ELSE <<>>

RECURSIVE flatten(_)
flatten(lists) == IF lists = <<>> THEN <<>> ELSE Head(lists) \o flatten(Tail(lists))

get_reservations(cfg) ==
    LET subnet4 == subnet4_of(cfg)
        listed(subnet) ==
            LET subnet_reservations == dict_get(subnet, "reservations")
            IN  [i \in 1..Len(subnet_reservations) |->
                    [hw_address |-> dict_get(subnet_reservations[i], "hw_address"),
                     ip_address |-> dict_get(subnet_reservations[i], "ip_address"),
                     hostname |-> dict_get(subnet_reservations[i], "hostname")]]
    IN  flatten([k \in 1..Len(subnet4) |-> listed(subnet4[k])])

\* <<start_ip, end_ip>>, <<>> standing for None
_get_pool_range(cfg) ==
    LET subnet4 == subnet4_of(cfg)
        pools == dict_get(subnet4[1], "pools")
        pool_str == dict_get(pools[1], "pool")
        at == find(pool_str, <<" ", "-", " ">>)
    IN  IF subnet4 = <<>> THEN << <<>>, <<>> >>
        ELSE IF pools = <<>> THEN << <<>>, <<>> >>
        ELSE IF at # 0
             THEN <<strip(SubSeq(pool_str, 1, at - 1)), strip(SubSeq(pool_str, at + 3, Len(pool_str)))>>
        ELSE << <<>>, <<>> >>

_validate_ip_in_pool(cfg, ip) ==
    LET range == _get_pool_range(cfg)
        ip_int == _ip_to_int(ip)
        start_int == _ip_to_int(range[1])
        end_int == _ip_to_int(range[2])
    IN  IF ~_validate_ip_address(ip) THEN FALSE
        ELSE IF range[1] = <<>> \/ range[2] = <<>> THEN TRUE
        ELSE IF ip_int = <<>> \/ start_int = <<>> \/ end_int = <<>> THEN FALSE
        ELSE int_le(start_int[1], ip_int[1]) /\ int_le(ip_int[1], end_int[1])

\* faulty variant: only the format is validated
_validate_ip_format_only(ip) == _validate_ip_address(ip)

\* faulty variant: every address of 192.168.123.2 .. 192.168.123.255 passes
_validate_ip_in_subnet(ip) ==
    LET ip_int == _ip_to_int(ip)
        start_int == _ip_to_int(_get_reserved_range[1])
        end_int == _ip_to_int(<<"1", "9", "2", ".", "1", "6", "8", ".", "1", "2", "3", ".", "2", "5", "5">>)
    IN  IF ~_validate_ip_address(ip) THEN FALSE
        ELSE IF ip_int = <<>> \/ start_int = <<>> \/ end_int = <<>> THEN FALSE
        ELSE int_le(start_int[1], ip_int[1]) /\ int_le(ip_int[1], end_int[1])

_validate_ip_in_reserved_range(ip) ==
    LET ip_int == _ip_to_int(ip)
        start_int == _ip_to_int(_get_reserved_range[1])
        end_int == _ip_to_int(_get_reserved_range[2])
    IN  IF ~_validate_ip_address(ip) THEN FALSE
        ELSE IF ip_int = <<>> \/ start_int = <<>> \/ end_int = <<>> THEN FALSE
        ELSE int_le(start_int[1], ip_int[1]) /\ int_le(ip_int[1], end_int[1])

RECURSIVE descending_scan(_, _, _)
\* for ip_int in range(end_int, start_int - 1, -1): first ip_str not in used_ips
descending_scan(ip_int, start_int, used_ips) ==
    IF ~int_le(start_int, ip_int) THEN <<>>
    ELSE IF int_to_ip(ip_int) \notin used_ips THEN int_to_ip(ip_int)
    ELSE descending_scan(int_pred(ip_int), start_int, used_ips)

\* <<>> for None
_get_next_available_reserved_ip(cfg) ==
    LET existing_reservations == get_reservations(cfg)
        used_ips == {existing_reservations[i].ip_address : i \in 1..Len(existing_reservations)}
        start_int == _ip_to_int(_get_reserved_range[1])
        end_int == _ip_to_int(_get_reserved_range[2])
    IN  IF start_int = <<>> \/ end_int = <<>> THEN <<>>
        ELSE descending_scan(end_int[1], start_int[1], used_ips)

\* _validate_config_structure
_validate_config_structure(cfg) == "Dhcp4" \in DOMAIN cfg /\ "subnet4" \in DOMAIN cfg.Dhcp4

\* faulty variant: a failure of the update script is not raised
update_config_ignoring_failure(cfg, file, sudo) ==
    IF ~_validate_config_structure(cfg)
    THEN [raised |-> "InvalidStructure", file |-> file, persist_calls |-> 0]
    ELSE IF ~sudo.persist_ok
    THEN [raised |-> "", file |-> file, persist_calls |-> 1]
    ELSE IF ~sudo.reread_ok
    THEN [raised |-> "ReadFailed", file |-> cfg, persist_calls |-> 1]
    ELSE [raised |-> "", file |-> cfg, persist_calls |-> 1]

(* update_config(config) on the stored document file: the update script    *)
(* replaces the file as a whole or, when it fails, leaves it alone; the    *)
(* JSON text written and read back denotes the document itself.            *)
(* raised is the exception, "" when the call returns.                      *)
(* get_config() of a file that holds a JSON object returns that object as  *)
(* it is.                                                                  *)
get_config(file) == [raised |-> "", value |-> <<file>>, file |-> file, persist_calls |-> 0]

update_config(cfg, file, sudo) ==
    IF ~_validate_config_structure(cfg)
    THEN [raised |-> "InvalidStructure", file |-> file, persist_calls |-> 0]
    ELSE IF ~sudo.persist_ok
    THEN [raised |-> "PersistFailed", file |-> file, persist_calls |-> 1]
    ELSE IF ~sudo.reread_ok
    THEN [raised |-> "ReadFailed", file |-> cfg, persist_calls |-> 1]
    ELSE [raised |-> "", file |-> cfg, persist_calls |-> 1]

----------------------------------------------------------------------------
(* The reservation operations.  Each takes the stored document (every      *)
(* get_config of one call reads it) and the outcomes of the commands run   *)
(* through sudo during the call:                                           *)
(*   read_ok    'cat' of the file works in the reads made before the write *)
(*   persist_ok the update script works                                    *)
(*   reread_ok  'cat' of the file works in the reads made after the write  *)
(* Each returns                                                            *)
(*   raised        the exception raised to the caller, "" when none        *)
(*   value         <<>> or <<the value returned>>                          *)
(*   file          the stored document after the call                      *)
(*   persist_calls how often the update script was run                     *)

\* every command works
Working == [read_ok |-> TRUE, persist_ok |-> TRUE, reread_ok |-> TRUE]

\* the outcomes that a call can tell apart: a command fails or none does
Sudos ==
    {Working, [Working EXCEPT !.read_ok = FALSE], [Working EXCEPT !.persist_ok = FALSE],
     [Working EXCEPT !.reread_ok = FALSE]}

\* faulty variant: the comparison without lower()
same_mac_exact(res_hw, hw_address) == res_hw = hw_address

\* res['hw-address'].lower() == hw_address.lower()
same_mac(res_hw, hw_address) == lower(res_hw) = lower(hw_address)

\* faulty variant: only the first listed reservation is compared
mac_exists_first(existing, hw_address) ==
    existing # <<>> /\ same_mac(existing[1].hw_address, hw_address)

\* add_reservation: "Check if reservation already exists"
mac_exists(existing, hw_address) ==
    \E i \in 1..Len(existing) : same_mac(existing[i].hw_address, hw_address)

\* add_reservation: "Check if IP is already assigned"
ip_assigned(existing, ip_address) ==
    \E i \in 1..Len(existing) : existing[i].ip_address = ip_address

\* faulty variant: a supplied pool address is accepted as it is
determine_ip_honoring_pool(cfg, ip_address) ==
    LET next == _get_next_available_reserved_ip(cfg)
    IN  IF ip_address = <<>>
        THEN IF next = <<>> THEN [raised |-> "RangeExhausted", ip_address |-> <<>>]
             ELSE [raised |-> "", ip_address |-> next]
        ELSE IF ~_validate_ip_address(ip_address)
        THEN [raised |-> "InvalidAddress", ip_address |-> <<>>]
        ELSE IF _validate_ip_in_pool(cfg, ip_address)
        THEN [raised |-> "", ip_address |-> ip_address]
        ELSE IF ~_validate_ip_in_reserved_range(ip_address)
        THEN [raised |-> "OutOfRange", ip_address |-> <<>>]
        ELSE [raised |-> "", ip_address |-> ip_address]

\* add_reservation: "Determine IP address to use"
determine_ip(cfg, ip_address) ==
    LET next == _get_next_available_reserved_ip(cfg)
        auto == IF next = <<>> THEN [raised |-> "RangeExhausted", ip_address |-> <<>>]
                ELSE [raised |-> "", ip_address |-> next]
    IN  IF ip_address = <<>> THEN auto
        ELSE IF ~_validate_ip_address(ip_address)
        THEN [raised |-> "InvalidAddress", ip_address |-> <<>>]
        ELSE IF _validate_ip_in_pool(cfg, ip_address) THEN auto
        ELSE IF ~_validate_ip_in_reserved_range(ip_address)
        THEN [raised |-> "OutOfRange", ip_address |-> <<>>]
        ELSE [raised |-> "", ip_address |-> ip_address]

\* add_reservation: "Check for duplicates in the in-memory config as well";
\* the exception of the first entry of subnet 0 that matches, "" when none
in_memory_duplicate(reservations, hw_address, ip_address) ==
    LET hit(r) == \/ same_mac(dict_get(r, "hw_address"), hw_address)
                  \/ dict_get(r, "ip_address") = ip_address
        hits == {i \in 1..Len(reservations) : hit(reservations[i])}
        first == CHOOSE i \in hits : \A j \in hits : i <= j
    IN  IF hits = {} THEN ""
        ELSE IF same_mac(dict_get(reservations[first], "hw_address"), hw_address) THEN "DuplicateMac"
        ELSE "DuplicateAddress"

\* faulty variant: the hostname key is set whether or not a hostname is given
new_reservation_with_hostname(hw_address, ip_address, hostname) ==
    [hw_address |-> lower(hw_address), ip_address |-> ip_address, hostname |-> hostname]

\* the new_reservation dict
new_reservation(hw_address, ip_address, hostname) ==
    IF hostname # <<>>
    THEN [hw_address |-> lower(hw_address), ip_address |-> ip_address, hostname |-> hostname]
    ELSE [hw_address |-> lower(hw_address), ip_address |-> ip_address]

\* config with subnet['reservations'] = reservations for subnet number k
with_reservations(cfg, k, reservations) ==
    LET subnet == cfg.Dhcp4.subnet4[k]
        keys == DOMAIN subnet \cup {"reservations"}
        changed == [key \in keys |-> IF key = "reservations" THEN reservations ELSE subnet[key]]
    IN  [cfg EXCEPT !.Dhcp4.subnet4[k] = changed]

\* faulty variant: the document is handed to the update script before the raise
failure_after_update(kind, file) ==
    [raised |-> kind, value |-> <<>>, file |-> file, persist_calls |-> 1]

\* a raise before update_config is reached
failure(kind, file) == [raised |-> kind, value |-> <<>>, file |-> file, persist_calls |-> 0]

(* The operations read the file more than once.  In the *_reading form     *)
(* cfg is the document returned by the get_config() whose result is        *)
(* modified and written, seen is the document that the reads made for the  *)
(* checks return, and file is the stored document when update_config runs. *)
(* A call that nothing interleaves with reads the same document each time. *)

\* faulty variant: the entry is appended to the document stored at writing time
append_to_stored(cfg, file, added, sudo) ==
    LET reservations == dict_get(subnet4_of(file)[1], "reservations")
        written == update_config(with_reservations(file, 1, Append(reservations, added)), file, sudo)
    IN  [raised |-> IF written.raised # "" THEN "AddFailed" ELSE "",
         value |-> IF written.raised # "" THEN <<>> ELSE <<added>>,
         file |-> written.file,
         persist_calls |-> written.persist_calls]

\* add_reservation: "Add reservation to first subnet"
append_and_update(cfg, file, added, sudo) ==
    LET reservations == dict_get(subnet4_of(cfg)[1], "reservations")
        written == update_config(with_reservations(cfg, 1, Append(reservations, added)), file, sudo)
    IN  [raised |-> IF written.raised # "" THEN "AddFailed" ELSE "",
         value |-> IF written.raised # "" THEN <<>> ELSE <<added>>,
         file |-> written.file,
         persist_calls |-> written.persist_calls]

\* add_reservation from "Check if IP is already assigned" on, the address determined
add_with_ip(cfg, file, existing, hw_address, ip_address, hostname, sudo) ==
    LET subnet4 == subnet4_of(cfg)
        duplicate == in_memory_duplicate(dict_get(subnet4[1], "reservations"), hw_address, ip_address)
    IN  IF ip_assigned(existing, ip_address) THEN failure("DuplicateAddress", file)
        ELSE IF subnet4 = <<>> THEN failure("NoSubnet", file)
        ELSE IF duplicate # "" THEN failure(duplicate, file)
        ELSE append_and_update(cfg, file, new_reservation(hw_address, ip_address, hostname), sudo)

\* add_reservation from "Determine IP address to use" on
add_unless_raised(cfg, file, existing, hw_address, chosen, hostname, sudo) ==
    IF chosen.raised # "" THEN failure(chosen.raised, file)
    ELSE add_with_ip(cfg, file, existing, hw_address, chosen.ip_address, hostname, sudo)

\* add_reservation from "Check if reservation already exists" on
add_checked(cfg, seen, file, existing, hw_address, ip_address, hostname, sudo) ==
    IF mac_exists(existing, hw_address) THEN failure("DuplicateMac", file)
    ELSE add_unless_raised(cfg, file, existing, hw_address, determine_ip(seen, ip_address),
                           hostname, sudo)

add_reservation_reading(cfg, seen, file, hw_address, ip_address, hostname, sudo) ==
    IF ~sudo.read_ok THEN failure("ReadFailed", file)
    ELSE IF ~_validate_mac_address(hw_address) THEN failure("InvalidMac", file)
    ELSE add_checked(cfg, seen, file, get_reservations(seen), hw_address, ip_address,
                     hostname, sudo)

add_reservation(file, hw_address, ip_address, hostname, sudo) ==
    add_reservation_reading(file, file, file, hw_address, ip_address, hostname, sudo)

\* faulty variant: the comparison of the hardware address only
kept_by_mac(reservations, identifier) ==
    SelectSeq(reservations,
              LAMBDA r : lower(dict_get(r, "hw_address")) # lower(identifier))

\* remove_reservation: the entries the list comprehension keeps
kept(reservations, identifier) ==
    SelectSeq(reservations,
              LAMBDA r : /\ lower(dict_get(r, "hw_address")) # lower(identifier)
                         /\ dict_get(r, "ip_address") # identifier)

remove_reservation_reading(cfg, file, identifier, sudo) ==
    LET subnet4 == subnet4_of(cfg)
        shrinks(k) == /\ "reservations" \in DOMAIN subnet4[k]
                      /\ Len(kept(subnet4[k].reservations, identifier)) < Len(subnet4[k].reservations)
        hits == {k \in 1..Len(subnet4) : shrinks(k)}
        first == CHOOSE k \in hits : \A j \in hits : k <= j
        written == update_config(with_reservations(cfg, first, kept(subnet4[first].reservations, identifier)),
                                 file, sudo)
    IN  IF ~sudo.read_ok THEN failure("ReadFailed", file)
        ELSE IF hits = {} THEN [raised |-> "", value |-> <<FALSE>>, file |-> file, persist_calls |-> 0]
        ELSE IF written.raised # ""
        THEN [raised |-> "RemoveFailed", value |-> <<>>, file |-> written.file,
              persist_calls |-> written.persist_calls]
        ELSE [raised |-> "", value |-> <<TRUE>>, file |-> written.file,
              persist_calls |-> written.persist_calls]

remove_reservation(file, identifier, sudo) ==
    remove_reservation_reading(file, file, identifier, sudo)

\* update_reservation_ip: "Check if new IP is already assigned to another reservation"
assigned_to_another(existing, identifier, new_ip) ==
    \E i \in 1..Len(existing) :
        /\ existing[i].ip_address = new_ip
        /\ lower(existing[i].hw_address) # lower(identifier)
        /\ existing[i].ip_address # identifier

\* update_reservation_ip: "Match by MAC or IP"
matches(reservation, identifier) ==
    \/ lower(dict_get(reservation, "hw_address")) = lower(identifier)
    \/ dict_get(reservation, "ip_address") = identifier

\* faulty variant: when nothing matches, the entry the loops ended on is taken
find_reservation_or_last(subnet4, identifier) ==
    LET found_in(k) == /\ "reservations" \in DOMAIN subnet4[k]
                       /\ \E i \in 1..Len(subnet4[k].reservations) :
                              matches(subnet4[k].reservations[i], identifier)
        subnets == {k \in 1..Len(subnet4) : found_in(k)}
        k0 == CHOOSE k \in subnets : \A j \in subnets : k <= j
        entries == {i \in 1..Len(subnet4[k0].reservations) : matches(subnet4[k0].reservations[i], identifier)}
        i0 == CHOOSE i \in entries : \A j \in entries : i <= j
        filled == {k \in 1..Len(subnet4) : dict_get(subnet4[k], "reservations") # <<>>}
        k1 == CHOOSE k \in filled : \A j \in filled : j <= k
    IN  IF subnets # {} THEN <<k0, i0>>
        ELSE IF filled # {} THEN <<k1, Len(subnet4[k1].reservations)>>
        ELSE <<>>

\* faulty variant: the last match in document order is taken
find_reservation_last(subnet4, identifier) ==
    LET found_in(k) == /\ "reservations" \in DOMAIN subnet4[k]
                       /\ \E i \in 1..Len(subnet4[k].reservations) :
                              matches(subnet4[k].reservations[i], identifier)
        subnets == {k \in 1..Len(subnet4) : found_in(k)}
        k0 == CHOOSE k \in subnets : \A j \in subnets : j <= k
        entries == {i \in 1..Len(subnet4[k0].reservations) : matches(subnet4[k0].reservations[i], identifier)}
        i0 == CHOOSE i \in entries : \A j \in entries : j <= i
    IN  IF subnets = {} THEN <<>> ELSE <<k0, i0>>

\* update_reservation_ip: "Find and update the reservation"; <<>> when not
\* found, else <<k, i>>: entry i of subnet k is the first match in document order
find_reservation(subnet4, identifier) ==
    LET found_in(k) == /\ "reservations" \in DOMAIN subnet4[k]
                       /\ \E i \in 1..Len(subnet4[k].reservations) :
                              matches(subnet4[k].reservations[i], identifier)
        subnets == {k \in 1..Len(subnet4) : found_in(k)}
        k0 == CHOOSE k \in subnets : \A j \in subnets : k <= j
        entries == {i \in 1..Len(subnet4[k0].reservations) : matches(subnet4[k0].reservations[i], identifier)}
        i0 == CHOOSE i \in entries : \A j \in entries : i <= j
    IN  IF subnets = {} THEN <<>> ELSE <<k0, i0>>

update_reservation_ip_reading(cfg, seen, file, identifier, new_ip, sudo) ==
    LET existing == get_reservations(seen)
        subnet4 == subnet4_of(cfg)
        found == find_reservation(subnet4, identifier)
        k0 == found[1]
        i0 == found[2]
        changed == [subnet4[k0].reservations EXCEPT ![i0] =
                        [key \in DOMAIN @ \cup {"ip_address"} |->
                            IF key = "ip_address" THEN new_ip ELSE @[key]]]
        written == update_config(with_reservations(cfg, k0, changed), file, sudo)
        updated_reservations == get_reservations(written.file)
        returned == {i \in 1..Len(updated_reservations) :
                        \/ lower(updated_reservations[i].hw_address) = lower(identifier)
                        \/ updated_reservations[i].ip_address = new_ip}
        r0 == CHOOSE i \in returned : \A j \in returned : i <= j
    IN  IF ~sudo.read_ok THEN failure("ReadFailed", file)
        ELSE IF ~_validate_ip_address(new_ip) THEN failure("InvalidAddress", file)
        ELSE IF ~_validate_ip_in_reserved_range(new_ip) THEN failure("OutOfRange", file)
        ELSE IF assigned_to_another(existing, identifier, new_ip) THEN failure("DuplicateAddress", file)
        ELSE IF found = <<>> THEN failure("NotFound", file)
        ELSE IF written.raised # ""
        THEN [raised |-> "UpdateFailed", value |-> <<>>, file |-> written.file,
              persist_calls |-> written.persist_calls]
        ELSE IF returned = {}
        THEN [raised |-> "UpdateFailed", value |-> <<>>, file |-> written.file,
              persist_calls |-> written.persist_calls]
        ELSE [raised |-> "", value |-> <<updated_reservations[r0]>>, file |-> written.file,
              persist_calls |-> written.persist_calls]

update_reservation_ip(file, identifier, new_ip, sudo) ==
    update_reservation_ip_reading(file, file, file, identifier, new_ip, sudo)

----------------------------------------------------------------------------
(* get_leases.  The lease database is the sequence of the records that     *)
(* csv.DictReader yields, each a record of the texts of the columns        *)
(* address, hwaddr, expire, state and hostname (an empty or missing field  *)
(* is the empty text).  leases_by_mac is the sequence of the dict's values *)
(* in insertion order, each with its key in hw_address.                    *)

\* faulty variant: a state that does not parse counts as 0
parsed_lenient(row) ==
    LET expire_time == IF row.expire # <<>> THEN int(row.expire) ELSE <<0>>
        state == IF row.state # <<>> THEN int(row.state) ELSE <<1>>
    IN  IF expire_time = <<>> THEN <<>>
        ELSE IF state = <<>> THEN <<expire_time[1], 0>>
        ELSE <<expire_time[1], state[1]>>

\* <<expire_time, state>> of the row, <<>> when int() raises ValueError
parsed(row) ==
    LET expire_time == IF row.expire # <<>> THEN int(row.expire) ELSE <<0>>
        state == IF row.state # <<>> THEN int(row.state) ELSE <<1>>
    IN  IF expire_time = <<>> \/ state = <<>> THEN <<>> ELSE <<expire_time[1], state[1]>>

\* faulty variant: expire_time >= current_time
active_or_expiring(state, expire_time, now) == state = 0 /\ expire_time >= now

\* "Only include active leases (state=0 and not expired)"
active(state, expire_time, now) == state = 0 /\ expire_time > now

\* faulty variant: the first lease of a hardware address is kept
absent(leases_by_mac, mac, expire_time) ==
    \A i \in 1..Len(leases_by_mac) : leases_by_mac[i].hw_address # mac

\* "Keep the lease with the latest expiration time for each MAC"
absent_or_later(leases_by_mac, mac, expire_time) ==
    \A i \in 1..Len(leases_by_mac) :
        leases_by_mac[i].hw_address = mac => expire_time > leases_by_mac[i]._expire

\* leases_by_mac[mac] = lease
assigned(leases_by_mac, mac, lease) ==
    IF \E i \in 1..Len(leases_by_mac) : leases_by_mac[i].hw_address = mac
    THEN [i \in 1..Len(leases_by_mac) |->
             IF leases_by_mac[i].hw_address = mac THEN lease ELSE leases_by_mac[i]]
    ELSE Append(leases_by_mac, lease)

\* one turn of the loop over the rows
after_row(leases_by_mac, row, now) ==
    LET fields == parsed(row)
        expire_time == fields[1]
        state == fields[2]
        mac == row.hwaddr
        lease == [ip_address |-> row.address, hw_address |-> mac, hostname |-> row.hostname,
                  expire |-> str(expire_time), state |-> str(state), _expire |-> expire_time]
    IN  IF fields = <<>> THEN leases_by_mac
        ELSE IF ~active(state, expire_time, now) THEN leases_by_mac
        ELSE IF mac = <<>> THEN leases_by_mac
        ELSE IF absent_or_later(leases_by_mac, mac, expire_time) THEN assigned(leases_by_mac, mac, lease)
        ELSE leases_by_mac

RECURSIVE after_rows(_, _, _)
\* leases_by_mac after the first n rows
after_rows(rows, n, now) ==
    IF n = 0 THEN <<>> ELSE after_row(after_rows(rows, n - 1, now), rows[n], now)

\* the leases returned: the values of leases_by_mac without the key _expire
get_leases(rows, now) ==
    LET leases_by_mac == after_rows(rows, Len(rows), now)
    IN  [i \in 1..Len(leases_by_mac) |->
            [key \in DOMAIN leases_by_mac[i] \ {"_expire"} |-> leases_by_mac[i][key]]]

----------------------------------------------------------------------------
(* Documents and arguments of the model                                    *)

Net == <<"1", "9", "2", ".", "1", "6", "8", ".", "1", "2", "3", ".">>

\* 192.168.123.n and the hardware address 02:00:00:00:00:<n in hex> of host n
host_ip(n) == Net \o str(n)

host_mac(n) ==
    <<"0", "2", ":", "0", "0", ":", "0", "0", ":", "0", "0", ":", "0", "0", ":">>
      \o <<HexLower[(n \div 16) + 1], HexLower[(n % 16) + 1]>>

host(n) == [hw_address |-> host_mac(n), ip_address |-> host_ip(n)]

\* the hosts first..49 in ascending order
hosts_from(first) == [i \in 1..(50 - first) |-> host(first + i - 1)]

pool_of(text) == <<[pool |-> text]>>

\* "192.168.123.50 - 192.168.123.250": a pool above the reserved range
PoolAbove ==
    pool_of(Net \o <<"5", "0", " ", "-", " ">> \o Net \o <<"2", "5", "0">>)

\* "192.168.123.40 - 192.168.123.100": a pool that overlaps the reserved range
PoolOverlapping ==
    pool_of(Net \o <<"4", "0", " ", "-", " ">> \o Net \o <<"1", "0", "0">>)

PoolLists == {PoolAbove, PoolOverlapping, <<>>}

document(subnets) == [Dhcp4 |-> [subnet4 |-> subnets]]

\* the documents a behaviour starts from: hardware and IP addresses unique
SmallDocuments ==
    {document(<<[pools |-> pools]>>) : pools \in PoolLists}
      \cup {document(<<[pools |-> PoolAbove, reservations |-> <<host(49)>>],
                       [pools |-> <<>>, reservations |-> <<host(48)>>]>>)}

\* the reserved range fully occupied
LargeDocuments == {document(<<[pools |-> PoolAbove, reservations |-> hosts_from(2)]>>)}

MacLower == <<"a", "a", ":", "b", "b", ":", "c", "c", ":", "d", "d", ":", "e", "e", ":", "f", "f">>

MacUpper == <<"A", "A", ":", "B", "B", ":", "C", "C", ":", "D", "D", ":", "E", "E", ":", "F", "F">>

MacHyphen == <<"a", "a", "-", "b", "b", "-", "c", "c", "-", "d", "d", "-", "e", "e", "-", "0", "1">>

MacFiveParts == <<"a", "a", ":", "b", "b", ":", "c", "c", ":", "d", "d", ":", "e", "e">>

MacInputs == {MacLower, MacUpper, MacHyphen, host_mac(48), MacFiveParts}

\* 192.168.123.049 denotes the ordinal of 192.168.123.49
IpPadded == Net \o <<"0", "4", "9">>

IpMalformed == Net \o <<"z">>

\* <<>> is the omitted address
IpInputs == {<<>>, host_ip(49), IpPadded, host_ip(100), host_ip(1), IpMalformed}

NewIpInputs == {host_ip(49), IpPadded, host_ip(2), host_ip(100), IpMalformed}

HostnameInputs == {<<>>, <<"h">>}

IdentifierInputs == {MacUpper, host_mac(48), host_mac(49), host_ip(49), host_ip(2)}

----------------------------------------------------------------------------
(* The state machine: the stored document (config), the records of the     *)
(* lease database file (lease_db), the clock (current_time), the calls in  *)
(* progress (workers), the last call with its outcome and the document it  *)
(* read, and the number of calls made.  Under Spec and SpecFull the calls  *)
(* run one at a time, the collaborators (sudo cat, the update script) work *)
(* and no lease is recorded.                                               *)

NoCall ==
    [op |-> "none", hw_address |-> <<>>, ip_address |-> <<>>, hostname |-> <<>>,
     identifier |-> <<>>, read_ok |-> TRUE, persist_ok |-> TRUE, reread_ok |-> TRUE,
     raised |-> "", value |-> <<>>, persist_calls |-> 0]

\* no lease recorded, no call in progress
Quiet ==
    /\ lease_db = <<>>
    /\ current_time = 0
    /\ workers = <<>>

Init ==
    /\ config \in SmallDocuments
    /\ Quiet
    /\ last = NoCall @@ [read |-> config]
    /\ calls = 0

InitFull ==
    /\ config \in LargeDocuments
    /\ Quiet
    /\ last = NoCall @@ [read |-> config]
    /\ calls = 0

Returned(op, outcome, arguments) ==
    /\ UNCHANGED <<lease_db, current_time, workers>>
    /\ config' = outcome.file
    /\ last' = [op |-> op, raised |-> outcome.raised, value |-> outcome.value,
                persist_calls |-> outcome.persist_calls, read |-> config]
               @@ arguments @@ NoCall
    /\ calls' = calls + 1

AddCall ==
    \E hw_address \in MacInputs, ip_address \in IpInputs, hostname \in HostnameInputs :
        Returned("add", add_reservation(config, hw_address, ip_address, hostname, Working),
                 [hw_address |-> hw_address, ip_address |-> ip_address, hostname |-> hostname])

RemoveCall ==
    \E identifier \in IdentifierInputs :
        Returned("remove", remove_reservation(config, identifier, Working),
                 [identifier |-> identifier])

UpdateCall ==
    \E identifier \in IdentifierInputs, new_ip \in NewIpInputs :
        Returned("update", update_reservation_ip(config, identifier, new_ip, Working),
                 [identifier |-> identifier, ip_address |-> new_ip])

AddReservation == calls < MaxCalls /\ AddCall

RemoveReservation == calls < MaxCalls /\ RemoveCall

UpdateReservationIp == calls < MaxCalls /\ UpdateCall

Next == AddReservation \/ RemoveReservation \/ UpdateReservationIp

Spec == Init /\ [][Next]_vars

AddReservationFull == calls < MaxCallsFull /\ AddCall

RemoveReservationFull == calls < MaxCallsFull /\ RemoveCall

UpdateReservationIpFull == calls < MaxCallsFull /\ UpdateCall

NextFull == AddReservationFull \/ RemoveReservationFull \/ UpdateReservationIpFull

SpecFull == InitFull /\ [][NextFull]_vars

----------------------------------------------------------------------------
(* SpecFaults: the calls, the two queries included, on every kind of       *)
(* document that the file can hold, written by this program or not, with   *)
(* commands run through sudo that can fail.                                *)

\* the JSON object {}
EmptyObject == <<>>

\* no Dhcp4 section, no subnet4 list, an empty subnet4 list
MalformedDocuments == {EmptyObject, [Dhcp4 |-> EmptyObject], document(<<>>)}

\* entries that repeat an address in one subnet, a hardware address in two subnets
RepeatingDocuments ==
    {document(<<[pools |-> PoolAbove,
                 reservations |-> <<host(49), host(48),
                                    [hw_address |-> MacLower, ip_address |-> host_ip(49),
                                     hostname |-> <<"h">>]>>]>>),
     document(<<[pools |-> PoolAbove, reservations |-> <<host(49)>>],
                [pools |-> <<>>,
                 reservations |-> <<[hw_address |-> host_mac(49), ip_address |-> host_ip(48)]>>]>>)}

StoredDocuments ==
    MalformedDocuments \cup RepeatingDocuments \cup LargeDocuments
      \cup {document(<<[pools |-> PoolAbove, reservations |-> <<host(49), host(48)>>]>>)}

FaultsMacInputs == {MacHyphen, host_mac(49), MacFiveParts}

FaultsIpInputs == {<<>>, host_ip(49), host_ip(2), host_ip(1), IpMalformed}

FaultsNewIpInputs == {host_ip(49), host_ip(2), host_ip(100), IpMalformed}

FaultsIdentifierInputs == {MacUpper, host_mac(49), host_ip(49)}

InitFaults ==
    /\ config \in StoredDocuments
    /\ Quiet
    /\ last = NoCall @@ [read |-> config]
    /\ calls = 0

GetConfigFaults ==
    /\ calls < MaxCallsFaults
    /\ Returned("get_config", get_config(config), <<>>)

GetReservationsFaults ==
    /\ calls < MaxCallsFaults
    /\ Returned("get_reservations",
                [get_config(config) EXCEPT !.value = <<get_reservations(config)>>], <<>>)

AddReservationFaults ==
    /\ calls < MaxCallsFaults
    /\ \E hw_address \in FaultsMacInputs, ip_address \in FaultsIpInputs, sudo \in Sudos :
           Returned("add", add_reservation(config, hw_address, ip_address, <<>>, sudo),
                    [hw_address |-> hw_address, ip_address |-> ip_address] @@ sudo)

RemoveReservationFaults ==
    /\ calls < MaxCallsFaults
    /\ \E identifier \in FaultsIdentifierInputs, sudo \in Sudos :
           Returned("remove", remove_reservation(config, identifier, sudo),
                    [identifier |-> identifier] @@ sudo)

UpdateReservationIpFaults ==
    /\ calls < MaxCallsFaults
    /\ \E identifier \in FaultsIdentifierInputs, new_ip \in FaultsNewIpInputs, sudo \in Sudos :
           Returned("update", update_reservation_ip(config, identifier, new_ip, sudo),
                    [identifier |-> identifier, ip_address |-> new_ip] @@ sudo)

NextFaults ==
    \/ GetConfigFaults \/ GetReservationsFaults
    \/ AddReservationFaults \/ RemoveReservationFaults \/ UpdateReservationIpFaults

SpecFaults == InitFaults /\ [][NextFaults]_vars

----------------------------------------------------------------------------
(* SpecLeases: get_leases on every lease database of at most MaxRows       *)
(* records, at the times Nows.                                             *)

\* a record; its address column is told apart by its expire column
LeaseRow(hwaddr, expire, state) ==
    [address |-> Net \o expire, hwaddr |-> hwaddr, expire |-> expire, state |-> state,
     hostname |-> <<>>]

\* expire and state of a record: active, inactive, not parsing, empty
ExpireAndState ==
    {<< <<"5", "0">>, <<"0">> >>, << <<"1", "0", "0">>, <<"0">> >>, << <<"2", "0", "0">>, <<"0">> >>,
     << <<"2", "0", "0">>, <<"1">> >>, << <<"z">>, <<"0">> >>, << <<"2", "0", "0">>, <<"z">> >>,
     << <<>>, <<"0">> >>, << <<"2", "0", "0">>, <<>> >>}

LeaseRows ==
    {LeaseRow(hwaddr, es[1], es[2]) : hwaddr \in {MacLower, MacHyphen}, es \in ExpireAndState}
      \cup {LeaseRow(<<>>, <<"2", "0", "0">>, <<"0">>)}

Nows == {50, 100}

InitLeases ==
    /\ config = document(<<[pools |-> PoolAbove]>>)
    /\ lease_db \in UNION {[1..n -> LeaseRows] : n \in 0..MaxRows}
    /\ current_time \in Nows
    /\ workers = <<>>
    /\ last = NoCall @@ [read |-> config]
    /\ calls = 0

GetLeases ==
    /\ calls = 0
    /\ Returned("get_leases",
                [get_config(config) EXCEPT !.value = <<get_leases(lease_db, current_time)>>], <<>>)

NextLeases == GetLeases

SpecLeases == InitLeases /\ [][NextLeases]_vars

----------------------------------------------------------------------------
(* SpecAddress: the address validator and the conversion to the ordinal    *)
(* and back, on address texts whose last component is any text of at most  *)
(* MaxOctetLen characters.                                                 *)

OctetChars == {"0", "1", "2", "5", "6", "9", "+", " "}

OctetTexts == UNION {[1..n -> OctetChars] : n \in 1..MaxOctetLen}

LeadingTexts == {<<"0">>, <<"1", "9", "2">>, <<"2", "5", "5">>, <<"2", "5", "6">>}

MiddleTexts == {<<"0">>, <<"2", "5", "5">>}

AddressTexts ==
    {a \o <<".">> \o b \o <<".">> \o c \o <<".">> \o d :
        a \in LeadingTexts, b \in MiddleTexts, c \in MiddleTexts, d \in OctetTexts}

InitAddress ==
    /\ config = document(<<[pools |-> PoolAbove]>>)
    /\ Quiet
    /\ last = NoCall @@ [read |-> config]
    /\ calls = 0

\* value is <<>> when the validator rejects the text
RoundTrip ==
    /\ calls = 0
    /\ \E ip \in AddressTexts :
           Returned("round_trip",
                    [get_config(config) EXCEPT
                        !.value = IF _validate_ip_address(ip) THEN formatted_back(ip) ELSE <<>>,
                        !.raised = IF _validate_ip_address(ip) THEN "" ELSE "InvalidAddress"],
                    [ip_address |-> ip])

NextAddress == RoundTrip

SpecAddress == InitAddress /\ [][NextAddress]_vars

----------------------------------------------------------------------------
(* SpecMac: add_reservation calls made one at a time with hardware         *)
(* addresses given in several text forms: colon or hyphen delimiters,      *)
(* upper or lower case, components with and without a leading zero.        *)

\* aa-bb-cc-dd-ee-ff
MacLowerHyphen == replace(MacLower, ":", "-")

\* 2:0:0:0:0:31, the octets of 02:00:00:00:00:31
MacUnpadded == <<"2", ":", "0", ":", "0", ":", "0", ":", "0", ":", "3", "1">>

MacTextInputs ==
    {MacLower, MacUpper, MacLowerHyphen, host_mac(49), MacUnpadded, MacHyphen, MacFiveParts}

MacIpInputs == {<<>>, host_ip(2)}

InitMac ==
    /\ config \in {document(<<[pools |-> PoolAbove]>>),
                   document(<<[pools |-> PoolAbove, reservations |-> <<host(49)>>]>>)}
    /\ Quiet
    /\ last = NoCall @@ [read |-> config]
    /\ calls = 0

AddReservationMac ==
    /\ calls < MaxCallsMac
    /\ \E hw_address \in MacTextInputs, ip_address \in MacIpInputs :
           Returned("add", add_reservation(config, hw_address, ip_address, <<>>, Working),
                    [hw_address |-> hw_address, ip_address |-> ip_address])

NextMac == AddReservationMac

SpecMac == InitMac /\ [][NextMac]_vars

----------------------------------------------------------------------------
(* SpecRace: two calls in progress at once, nothing serializing them.  A   *)
(* call is three steps: its first read of the file (Begin), its later      *)
(* reads (Reread: they are taken to return one document) and the rest of   *)
(* the call with update_config (Finish).  add_reservation and              *)
(* update_reservation_ip modify the document of their first read and check *)
(* against the later reads; remove_reservation reads once.  calls counts   *)
(* the steps taken, which dates the reads and the writes.                  *)

Workers == {1, 2}

RaceDocuments ==
    {document(<<[pools |-> PoolAbove]>>),
     document(<<[pools |-> PoolAbove, reservations |-> <<host(49)>>]>>),
     document(<<[pools |-> PoolAbove,
                 reservations |-> <<host(49), [hw_address |-> MacLower, ip_address |-> host_ip(2)]>>]>>)}

RaceCall(op, hw_address, ip_address, identifier) ==
    [op |-> op, hw_address |-> hw_address, ip_address |-> ip_address, identifier |-> identifier]

RaceCalls ==
    {RaceCall("add", MacLower, <<>>, <<>>),
     RaceCall("add", MacHyphen, host_ip(48), <<>>),
     RaceCall("add", MacUpper, host_ip(2), <<>>),
     RaceCall("remove", <<>>, <<>>, host_ip(49)),
     RaceCall("remove", <<>>, <<>>, MacUpper),
     RaceCall("update", <<>>, host_ip(2), host_mac(49)),
     RaceCall("update", <<>>, host_ip(47), host_ip(49))}

Idle ==
    [pc |-> "idle", call |-> RaceCall("none", <<>>, <<>>, <<>>), first |-> <<>>, second |-> <<>>,
     began_at |-> 0, read_at |-> 0, wrote_at |-> 0,
     raised |-> "", value |-> <<>>, persist_calls |-> 0]

InitRace ==
    /\ config \in RaceDocuments
    /\ lease_db = <<>>
    /\ current_time = 0
    /\ workers = [p \in Workers |-> Idle]
    /\ last = NoCall @@ [read |-> config]
    /\ calls = 0

Begin(p) ==
    /\ workers[p].pc = "idle"
    /\ \E call \in RaceCalls :
           workers' = [workers EXCEPT ![p] =
                          [@ EXCEPT !.pc = IF call.op = "remove" THEN "ready" ELSE "read",
                                    !.call = call, !.first = config, !.second = config,
                                    !.began_at = calls + 1, !.read_at = calls + 1]]
    /\ calls' = calls + 1
    /\ UNCHANGED <<config, lease_db, current_time, last>>

Reread(p) ==
    /\ workers[p].pc = "read"
    /\ workers' = [workers EXCEPT ![p] =
                      [@ EXCEPT !.pc = "ready", !.second = config, !.read_at = calls + 1]]
    /\ calls' = calls + 1
    /\ UNCHANGED <<config, lease_db, current_time, last>>

\* the rest of the call of a worker, on the stored document file
finish(w, file) ==
    CASE w.call.op = "add" ->
           add_reservation_reading(w.first, w.second, file, w.call.hw_address,
                                   w.call.ip_address, <<>>, Working)
      [] w.call.op = "remove" ->
           remove_reservation_reading(w.first, file, w.call.identifier, Working)
      [] w.call.op = "update" ->
           update_reservation_ip_reading(w.first, w.second, file, w.call.identifier,
                                         w.call.ip_address, Working)

\* the worker returns with the outcome of the rest of its call
Returns(p, outcome) ==
    /\ config' = outcome.file
    /\ workers' = [workers EXCEPT ![p] =
                      [@ EXCEPT !.pc = "done", !.wrote_at = calls + 1,
                                !.raised = outcome.raised, !.value = outcome.value,
                                !.persist_calls = outcome.persist_calls]]
    /\ calls' = calls + 1
    /\ UNCHANGED <<lease_db, current_time, last>>

Finish(p) ==
    /\ workers[p].pc = "ready"
    /\ Returns(p, finish(workers[p], config))

NextRace == \E p \in Workers : Begin(p) \/ Reread(p) \/ Finish(p)

SpecRace == InitRace /\ [][NextRace]_vars

----------------------------------------------------------------------------
(* Vocabulary of the properties.  An address is the 32-bit ordinal that a  *)
(* well-formed text denotes: two texts are the same address when their     *)
(* ordinals are equal.                                                     *)

\* the reserved range is 192.168.123.ReservedFirst .. 192.168.123.ReservedLast
ReservedFirst == 2

ReservedLast == 49

Listed(cfg) == get_reservations(cfg)

SameAddress(a, b) == _validate_ip_address(a) /\ _ip_to_int(a) = _ip_to_int(b)

\* the addresses of the reservations of the document
Addresses(cfg) == LET rs == Listed(cfg) IN {_ip_to_int(rs[i].ip_address) : i \in 1..Len(rs)}

\* the address is the address of some reservation of the document
Used(cfg, ip) == _ip_to_int(ip) \in Addresses(cfg)

\* the host numbers of the reserved range whose address no reservation has
Unused(cfg) ==
    LET used == Addresses(cfg)
    IN  {n \in ReservedFirst..ReservedLast : _ip_to_int(host_ip(n)) \notin used}

Highest(S) == CHOOSE n \in S : \A m \in S : m <= n

MacPresent(cfg, hw) ==
    LET rs == Listed(cfg)
        folded == lower(hw)
    IN  \E i \in 1..Len(rs) : lower(rs[i].hw_address) = folded

\* the ordinals of the addresses of the reserved range
ReservedOrdinals == {_ip_to_int(host_ip(n)) : n \in ReservedFirst..ReservedLast}

\* the text denotes an address of the reserved range
InReserved(ip) == _validate_ip_address(ip) /\ _ip_to_int(ip) \in ReservedOrdinals

\* the document defines a pool range and the well-formed text denotes an address in it
InPool(cfg, ip) ==
    LET range == _get_pool_range(cfg)
    IN  /\ _validate_ip_address(ip)
        /\ range[1] # <<>> /\ range[2] # <<>>
        /\ _ip_to_int(range[1]) # <<>> /\ _ip_to_int(range[2]) # <<>>
        /\ int_le(_ip_to_int(range[1])[1], _ip_to_int(ip)[1])
        /\ int_le(_ip_to_int(ip)[1], _ip_to_int(range[2])[1])

\* the reservation is identified by the identifier: by hardware address or by address
Identified(r, identifier) == lower(r.hw_address) = lower(identifier) \/ r.ip_address = identifier

\* the last entry of subnet 0 of the stored document
LastStored == LET rs == dict_get(subnet4_of(config)[1], "reservations") IN rs[Len(rs)]

Unchanged == config = last.read /\ last.persist_calls = 0

\* every command run through sudo during the last call worked
CommandsWorked == last.read_ok /\ last.persist_ok /\ last.reread_ok

NewValidMac == _validate_mac_address(last.hw_address) /\ ~MacPresent(last.read, last.hw_address)

\* the lower-case letters of the alphabet and their upper-case letters
UpperOf == [c \in {LowerOf[u] : u \in DOMAIN LowerOf} |-> CHOOSE u \in DOMAIN LowerOf : LowerOf[u] = c]

\* the text in upper case
upper(s) == [i \in 1..Len(s) |-> IF s[i] \in DOMAIN UpperOf THEN UpperOf[s[i]] ELSE s[i]]

\* the uniqueness invariants: no two reservations with the same hardware
\* address (case-insensitively) or with the same address
UniqueIn(cfg) ==
    LET rs == Listed(cfg)
        folded == [i \in 1..Len(rs) |-> lower(rs[i].hw_address)]
        ordinal == [i \in 1..Len(rs) |-> _ip_to_int(rs[i].ip_address)]
    IN  \A i, j \in 1..Len(rs) : i # j => folded[i] # folded[j] /\ ordinal[i] # ordinal[j]

\* the positions <<k, i>> of the entries of the document: entry i of subnet k
Entries(cfg) ==
    LET subnet4 == subnet4_of(cfg)
    IN  UNION {{<<k, i>> : i \in 1..Len(dict_get(subnet4[k], "reservations"))} : k \in 1..Len(subnet4)}

Entry(cfg, e) == subnet4_of(cfg)[e[1]].reservations[e[2]]

\* the document minus exactly the entry at position e
without(cfg, e) ==
    LET rs == subnet4_of(cfg)[e[1]].reservations
    IN  [cfg EXCEPT !.Dhcp4.subnet4[e[1]].reservations =
            SubSeq(rs, 1, e[2] - 1) \o SubSeq(rs, e[2] + 1, Len(rs))]

\* the positions of the entries that the identifier identifies, and the
\* first of them in document order: subnet by subnet, entry by entry
IdentifiedEntries(cfg, identifier) ==
    {e \in Entries(cfg) : Identified(Entry(cfg, e) @@ [hw_address |-> <<>>, ip_address |-> <<>>], identifier)}

FirstOf(S) == CHOOSE e \in S : \A f \in S : e[1] < f[1] \/ (e[1] = f[1] /\ e[2] <= f[2])

\* the value of a hexadecimal digit
HexValue(c) == (CHOOSE i \in 1..16 : HexLower[i] = lower_char(c)) - 1

RECURSIVE HexNumber(_)
HexNumber(s) == IF s = <<>> THEN 0 ELSE 16 * HexNumber(SubSeq(s, 1, Len(s) - 1)) + HexValue(s[Len(s)])

\* the six octets that an accepted hardware address text denotes: the
\* values of its components read in base 16
Octets(mac) ==
    LET parts == split(replace(mac, ":", "-"), <<"-">>)
        body(part) == IF strip(part) # <<>> /\ Head(strip(part)) = "+" THEN Tail(strip(part)) ELSE strip(part)
    IN  [i \in 1..Len(parts) |-> HexNumber(body(parts[i]))]

\* no top-level Dhcp4 section, or its subnet4 list absent or empty
Malformed(cfg) ==
    \/ "Dhcp4" \notin DOMAIN cfg
    \/ "subnet4" \notin DOMAIN cfg.Dhcp4
    \/ cfg.Dhcp4.subnet4 = <<>>

\* the list minus its first entry that the identifier identifies
minus_first(reservations, identifier) ==
    LET hits == {i \in 1..Len(reservations) : Identified(reservations[i], identifier)}
        first == CHOOSE i \in hits : \A j \in hits : i <= j
    IN  IF hits = {} THEN reservations
        ELSE SubSeq(reservations, 1, first - 1) \o SubSeq(reservations, first + 1, Len(reservations))

\* the document with the first identified entry of each subnet removed
first_removed_per_subnet(cfg, identifier) ==
    LET subnet4 == subnet4_of(cfg)
        pruned(subnet) ==
            IF "reservations" \in DOMAIN subnet
            THEN [subnet EXCEPT !.reservations = minus_first(subnet.reservations, identifier)]
            ELSE subnet
    IN  [cfg EXCEPT !.Dhcp4.subnet4 = [k \in 1..Len(subnet4) |-> pruned(subnet4[k])]]

\* both calls of SpecRace have returned; the one that finished last and the other
BothDone == workers # <<>> /\ \A p \in Workers : workers[p].pc = "done"

Later == workers[CHOOSE p \in Workers : \A q \in Workers : workers[q].wrote_at <= workers[p].wrote_at]

Earlier == workers[CHOOSE p \in Workers : \A q \in Workers : workers[p].wrote_at <= workers[q].wrote_at]

\* both calls had made all their reads before either ran update_config
Raced == Later.read_at < Earlier.wrote_at

\* the later call began after the earlier one had returned
Serialized == Earlier.wrote_at < Later.began_at

\* the call reported success and has written
Wrote(w) == w.raised = "" /\ w.persist_calls = 1

\* the stored document after the call of the worker, made alone on the document
alone(w, doc) ==
    CASE w.call.op = "add" ->
           add_reservation(doc, w.call.hw_address, w.call.ip_address, <<>>, Working).file
      [] w.call.op = "remove" -> remove_reservation(doc, w.call.identifier, Working).file
      [] w.call.op = "update" ->
           update_reservation_ip(doc, w.call.identifier, w.call.ip_address, Working).file

\* the worker is the one that wrote last
IsLater(p) == workers[p].wrote_at = Later.wrote_at

\* the document the call of the worker left: the stored one after the later
\* call, the one the later call read first after the earlier call
left_by(p) == IF IsLater(p) THEN config ELSE Later.first

\* the later call adds the hardware address anew
Readds(w, hw) == w.call.op = "add" /\ lower(w.call.hw_address) = lower(hw)

\* the record has state = 0 and expire > now
Qualifies(row, now) ==
    /\ int(row.state) = <<0>>
    /\ int(row.expire) # <<>>
    /\ int(row.expire)[1] > now

\* the expire or the state field of the record does not parse
Unparseable(row) ==
    \/ row.expire # <<>> /\ int(row.expire) = <<>>
    \/ row.state # <<>> /\ int(row.state) = <<>>

\* the greatest expire among the qualifying records of the hardware address
GreatestExpire(rows, hw, now) ==
    LET of == {int(rows[i].expire)[1] : i \in {j \in 1..Len(rows) : Qualifies(rows[j], now) /\ rows[j].hwaddr = hw}}
    IN  CHOOSE e \in of : \A f \in of : f <= e

\* the errors of a rejected add_reservation or update_reservation_ip
Rejections ==
    {"InvalidMac", "InvalidAddress", "DuplicateMac", "DuplicateAddress",
     "OutOfRange", "RangeExhausted", "NotFound"}

----------------------------------------------------------------------------
(* C1: in every state reached by add_reservation, update_reservation_ip    *)
(* and remove_reservation calls made one at a time from a document with    *)
(* unique hardware addresses, no two reservations of the document, in any  *)
(* subnet, have the same hardware address compared case-insensitively.     *)
C1_HwAddressUnique ==
    LET rs == Listed(config)
        folded == [i \in 1..Len(rs) |-> lower(rs[i].hw_address)]
    IN  \A i, j \in 1..Len(rs) : i # j => folded[i] # folded[j]

\* an add with the upper-case form of a stored hardware address was rejected
C1_Witness ==
    /\ last.op = "add" /\ last.hw_address = MacUpper /\ last.raised = "DuplicateMac"
    /\ LET rs == Listed(config) IN \E i \in 1..Len(rs) : rs[i].hw_address = MacLower

(* C2: no two reservations of the document denote the same IPv4 address    *)
(* (the same 32-bit ordinal), whatever accepted address texts the calls    *)
(* were given.                                                             *)
C2_IpAddressUnique ==
    LET rs == Listed(config)
        ordinal == [i \in 1..Len(rs) |-> _ip_to_int(rs[i].ip_address)]
    IN  \A i, j \in 1..Len(rs) : i # j => ordinal[i] # ordinal[j]

(* C3: add_reservation with no address and a valid hardware address that   *)
(* no reservation has stores the highest address of the reserved range     *)
(* that is not the address of a reservation of any subnet: .49 on an empty *)
(* reservation set, .2 when only .2 is left.                               *)
C3_DescendingFirstFit ==
    (last.op = "add" /\ last.ip_address = <<>> /\ NewValidMac /\ Unused(last.read) # {}) =>
        /\ last.raised = ""
        /\ SameAddress(last.value[1].ip_address, host_ip(Highest(Unused(last.read))))
        /\ LastStored = last.value[1]
        /\ (Listed(last.read) = <<>> => LastStored.ip_address = host_ip(ReservedLast))
        /\ (Unused(last.read) = {ReservedFirst} => LastStored.ip_address = host_ip(ReservedFirst))

(* C4: when every address of the reserved range is the address of a        *)
(* reservation, add_reservation with no address, or with an address in the *)
(* pool range, fails with the range-exhausted error, appends nothing and   *)
(* does not run the persist step (for a valid hardware address that no     *)
(* reservation has: any other is rejected before the allocation).          *)
C4_Exhausted ==
    (/\ last.op = "add" /\ Unused(last.read) = {} /\ NewValidMac
     /\ (last.ip_address = <<>> \/ InPool(last.read, last.ip_address))) =>
        last.raised = "RangeExhausted" /\ Unchanged

(* C5 as stated: a successful add_reservation whose supplied address is    *)
(* well-formed and in the pool range stores an address of the reserved     *)
(* range that differs from the supplied one, for every pool range.         *)
C5_PoolAddressNeverStored ==
    (last.op = "add" /\ last.raised = "" /\ InPool(last.read, last.ip_address)) =>
        /\ ~SameAddress(LastStored.ip_address, last.ip_address)
        /\ InReserved(LastStored.ip_address)

(* C5 amended: such an add stores an address of the reserved range; the    *)
(* stored address differs from the supplied one whenever the supplied      *)
(* address is outside the reserved range (it can be the supplied one when  *)
(* the pool range overlaps the reserved range).                            *)
C5_PoolAddressRedirected ==
    (last.op = "add" /\ last.raised = "" /\ InPool(last.read, last.ip_address)) =>
        /\ InReserved(LastStored.ip_address)
        /\ LastStored = last.value[1]
        /\ ~InReserved(last.ip_address) => ~SameAddress(LastStored.ip_address, last.ip_address)

\* a pool address outside the reserved range was supplied and another one stored
C5_Witness ==
    /\ last.op = "add" /\ last.raised = "" /\ InPool(last.read, last.ip_address)
    /\ ~InReserved(last.ip_address) /\ InReserved(LastStored.ip_address)

(* C6: add_reservation with a valid new hardware address and a well-formed *)
(* address that is not in the pool range (also when the document defines   *)
(* no pool) stores the supplied address when it is in the reserved range   *)
(* and unused, and fails with the out-of-range error when it is outside    *)
(* the reserved range.                                                     *)
C6_SuppliedOutsidePool ==
    (/\ last.op = "add" /\ NewValidMac /\ _validate_ip_address(last.ip_address)
     /\ ~InPool(last.read, last.ip_address)) =>
        /\ (InReserved(last.ip_address) /\ ~Used(last.read, last.ip_address))
              => (last.raised = "" /\ LastStored.ip_address = last.ip_address)
        /\ ~InReserved(last.ip_address) => last.raised = "OutOfRange"

(* C7: update_reservation_ip with a well-formed new address in the pool    *)
(* range and outside the reserved range fails with the out-of-range error  *)
(* and leaves the document unchanged, for every identifier, although       *)
(* add_reservation of a new hardware address with that address succeeds    *)
(* while the reserved range has an unused address.                         *)
C7_UpdateNeverRedirects ==
    (/\ last.op = "update" /\ InPool(last.read, last.ip_address)
     /\ ~InReserved(last.ip_address)) =>
        /\ last.raised = "OutOfRange" /\ Unchanged
        /\ Unused(last.read) # {} =>
              \A hw \in MacInputs :
                  (_validate_mac_address(hw) /\ ~MacPresent(last.read, hw)) =>
                      add_reservation(last.read, hw, last.ip_address, <<>>, Working).raised = ""

\* an update of an existing reservation to a pool address was rejected
C7_Witness ==
    /\ last.op = "update" /\ InPool(last.read, last.ip_address) /\ ~InReserved(last.ip_address)
    /\ LET rs == Listed(last.read) IN \E i \in 1..Len(rs) : Identified(rs[i], last.identifier)
    /\ Unused(last.read) # {}
    /\ last.raised = "OutOfRange"

(* C8: add_reservation with a hardware address that a reservation of any   *)
(* subnet already has, compared case-insensitively, fails with the         *)
(* duplicate-MAC error whatever the address argument is, and writes        *)
(* nothing.                                                                *)
C8_DuplicateMacFirst ==
    (last.op = "add" /\ MacPresent(last.read, last.hw_address)) =>
        last.raised = "DuplicateMac" /\ Unchanged

\* the duplicate came with a malformed address and differs in letter case
C8_Witness ==
    /\ last.op = "add" /\ last.hw_address = MacUpper /\ last.ip_address = IpMalformed
    /\ MacPresent(last.read, MacUpper) /\ last.raised = "DuplicateMac"

(* C9: update_reservation_ip of an identified reservation with a           *)
(* well-formed new address of the reserved range fails with the            *)
(* duplicate-address error whenever a reservation that the identifier does *)
(* not identify has the new address, and not when the only holder is the   *)
(* identified reservation: updating a reservation to its own address       *)
(* succeeds and changes nothing, by MAC or by IP.                          *)
C9_UpdateCollision ==
    (/\ last.op = "update" /\ InReserved(last.ip_address)
     /\ LET rs == Listed(last.read) IN \E i \in 1..Len(rs) : Identified(rs[i], last.identifier)) =>
        LET rs == Listed(last.read)
            holders == {i \in 1..Len(rs) : SameAddress(rs[i].ip_address, last.ip_address)}
            own == {i \in holders : Identified(rs[i], last.identifier)}
        IN  /\ holders \ own # {} => last.raised = "DuplicateAddress"
            /\ holders = own => last.raised # "DuplicateAddress"
            /\ (\E i \in own : rs[i].ip_address = last.ip_address) =>
                  (holders = own => last.raised = "" /\ config = last.read)

(* C10 as stated: update_reservation_ip with a well-formed new address of  *)
(* the reserved range and an identifier that is no reservation's hardware  *)
(* address and no reservation's address fails with the not-found error     *)
(* and does not run the persist step.                                      *)
C10_UnknownIsNotFound ==
    (/\ last.op = "update" /\ InReserved(last.ip_address)
     /\ LET rs == Listed(last.read) IN \A i \in 1..Len(rs) : ~Identified(rs[i], last.identifier)) =>
        last.raised = "NotFound" /\ last.persist_calls = 0

(* C10 amended: such a call fails with the not-found error when no         *)
(* reservation has the new address, with the duplicate-address error when  *)
(* a reservation is stored with exactly the new address text, and with one *)
(* of the two in any case; the persist step is not run.                    *)
C10_UnknownIdentifier ==
    (/\ last.op = "update" /\ InReserved(last.ip_address)
     /\ LET rs == Listed(last.read) IN \A i \in 1..Len(rs) : ~Identified(rs[i], last.identifier)) =>
        LET rs == Listed(last.read)
        IN  /\ last.raised \in {"NotFound", "DuplicateAddress"}
            /\ ~Used(last.read, last.ip_address) => last.raised = "NotFound"
            /\ (\E i \in 1..Len(rs) : rs[i].ip_address = last.ip_address)
                  => last.raised = "DuplicateAddress"
            /\ Unchanged

\* an unknown identifier was not found among existing reservations
C10_Witness ==
    /\ last.op = "update" /\ InReserved(last.ip_address) /\ last.raised = "NotFound"
    /\ Listed(last.read) # <<>>

(* C11: for a document with unique hardware addresses and unique           *)
(* addresses and a reservation R of it, remove_reservation with R's        *)
(* hardware address in any letter case and with R's address each return    *)
(* true and leave the same document: the one read minus exactly the entry  *)
(* R.                                                                      *)
C11_RemoveByEitherKey ==
    (last.op = "remove" /\ UniqueIn(last.read)) =>
        \A e \in Entries(last.read) :
            LET R == Entry(last.read, e)
                keys == {R.hw_address, upper(R.hw_address), R.ip_address}
            IN  last.identifier \in keys =>
                    /\ last.raised = "" /\ last.value = <<TRUE>>
                    /\ config = without(last.read, e)
                    /\ \A key \in keys :
                          LET removed == remove_reservation(last.read, key, Working)
                          IN  removed.value = <<TRUE>> /\ removed.file = config

\* a reservation stored in lower case was removed by its upper-case hardware address
C11_Witness ==
    /\ last.op = "remove" /\ UniqueIn(last.read) /\ last.identifier = MacUpper
    /\ last.value = <<TRUE>> /\ Len(Listed(last.read)) > Len(Listed(config))
    /\ Listed(config) # <<>>

(* C12: when add_reservation or update_reservation_ip fails with the       *)
(* invalid-MAC, invalid-address, duplicate-MAC, duplicate-address,         *)
(* out-of-range, range-exhausted or not-found error, and when              *)
(* remove_reservation returns false, update_config was not called and the  *)
(* stored document is the one the call read.                               *)
C12_RejectedLeavesState ==
    (\/ last.op \in {"add", "update"} /\ last.raised \in Rejections
     \/ last.op = "remove" /\ last.value = <<FALSE>>) =>
        last.persist_calls = 0 /\ config = last.read

\* the allocation was rejected on the fully occupied reserved range
C12_Witness ==
    /\ last.op = "add" /\ last.raised = "RangeExhausted"
    /\ Len(Listed(config)) = ReservedLast - ReservedFirst + 1

(* C14: every operation that loads the document (get_config,               *)
(* get_reservations, add_reservation, remove_reservation,                  *)
(* update_reservation_ip) fails, returning nothing, when the document has  *)
(* no top-level Dhcp4 section or when its subnet4 list is absent or empty. *)
C14_LoadValidatesStructure ==
    (/\ last.op \in {"get_config", "get_reservations", "add", "remove", "update"}
     /\ Malformed(last.read)) =>
        last.raised # "" /\ last.value = <<>>

(* C15: when the update script fails during add_reservation,               *)
(* update_reservation_ip or remove_reservation, the call raises (it        *)
(* returns no reservation and no true), and the script is run at most once *)
(* in a call.                                                              *)
C15_PersistFailurePropagates ==
    last.op \in {"add", "update", "remove"} =>
        /\ last.persist_calls <= 1
        /\ (~last.persist_ok /\ last.persist_calls > 0) =>
              (last.raised # "" /\ last.value = <<>>)

\* the script failed under an add_reservation that had passed every check
C15_Witness ==
    /\ last.op = "add" /\ ~last.persist_ok /\ last.persist_calls = 1
    /\ last.raised = "AddFailed" /\ config = last.read

(* C20: remove_reservation removes, in each subnet, the first entry whose  *)
(* hardware address is the identifier case-insensitively or whose address  *)
(* is exactly the identifier, leaves every other entry (later matching     *)
(* entries of the same subnet included) in place and in order, and returns *)
(* true iff an entry was removed.                                          *)
C20_RemovesFirstPerSubnet ==
    (last.op = "remove" /\ CommandsWorked /\ ~Malformed(last.read)) =>
        LET expected == first_removed_per_subnet(last.read, last.identifier)
        IN  /\ last.raised = ""
            /\ config = expected
            /\ last.value = <<expected # last.read>>

(* C13: when two mutation calls both read the document before either      *)
(* writes and both report success, the stored document after both writes   *)
(* is the one the later writer computed from what it read, and the change  *)
(* of the earlier writer is lost; when the later call begins after the     *)
(* earlier one has returned, no change is lost.                            *)
C13_LastWriteWins ==
    (BothDone /\ Wrote(Earlier) /\ Wrote(Later)) =>
        LET initial == Earlier.first
            removed == {i \in 1..Len(Listed(initial)) :
                           /\ Earlier.call.op = "remove"
                           /\ Identified(Listed(initial)[i], Earlier.call.identifier)}
        IN  /\ Raced => Later.first = initial
            /\ \A p \in Workers :
                  (Serialized \/ (Raced /\ IsLater(p)))
                      => left_by(p) = alone(workers[p], workers[p].first)
            /\ Raced =>
                  /\ (Earlier.call.op = "add" /\ ~Readds(Later, Earlier.call.hw_address))
                        => ~MacPresent(config, Earlier.call.hw_address)
                  /\ Later.call.op # "remove" =>
                        \A i \in removed : MacPresent(config, Listed(initial)[i].hw_address)
            /\ Serialized =>
                  /\ (/\ Earlier.call.op = "add"
                      /\ ~(/\ Later.call.op = "remove"
                           /\ Identified(Earlier.value[1], Later.call.identifier)))
                        => MacPresent(config, Earlier.call.hw_address)
                  /\ \A i \in removed :
                        ~Readds(Later, Listed(initial)[i].hw_address)
                            => ~MacPresent(config, Listed(initial)[i].hw_address)

\* two adds raced, both returned their reservation, and the first one is not stored
C13_Witness ==
    /\ BothDone /\ Raced /\ Wrote(Earlier) /\ Wrote(Later)
    /\ Earlier.call.op = "add" /\ Later.call.op = "add"
    /\ Earlier.value # <<>> /\ Later.value # <<>>
    /\ ~MacPresent(config, Earlier.call.hw_address)

(* C16: the result of get_leases has exactly one entry for each non-empty  *)
(* hardware address that has a record with state = 0 and expire > now, no  *)
(* entry for any other hardware address (none with an empty one), and the  *)
(* expire of the entry is the greatest expire among the qualifying records *)
(* of its hardware address.                                                *)
C16_OneEntryPerClient ==
    last.op = "get_leases" =>
        LET leases == last.value[1]
            clients == {lease_db[i].hwaddr : i \in {j \in 1..Len(lease_db) :
                           Qualifies(lease_db[j], current_time) /\ lease_db[j].hwaddr # <<>>}}
        IN  /\ \A hw \in clients :
                  /\ Cardinality({i \in 1..Len(leases) : leases[i].hw_address = hw}) = 1
                  /\ \A i \in 1..Len(leases) :
                        leases[i].hw_address = hw =>
                            int(leases[i].expire) = <<GreatestExpire(lease_db, hw, current_time)>>
            /\ \A i \in 1..Len(leases) : leases[i].hw_address \in clients

\* two active records of one client, expire 100 and 200 at now = 50, gave one entry with 200
C16_Witness ==
    /\ last.op = "get_leases" /\ current_time = 50
    /\ \E i, j \in 1..Len(lease_db) :
          /\ lease_db[i] = LeaseRow(MacLower, <<"2", "0", "0">>, <<"0">>)
          /\ lease_db[j] = LeaseRow(MacLower, <<"1", "0", "0">>, <<"0">>)
    /\ Len(last.value[1]) = 1
    /\ last.value[1][1].expire = <<"2", "0", "0">>

(* C17: every entry returned by get_leases comes from a record with        *)
(* state = 0 and expire strictly greater than the current time; a record   *)
(* whose state is not 0, or whose expire is at most the current time       *)
(* (equal included), contributes nothing to the result.                    *)
C17_ActiveAndUnexpired ==
    last.op = "get_leases" =>
        LET leases == last.value[1]
            qualifying == SelectSeq(lease_db, LAMBDA row : Qualifies(row, current_time))
        IN  /\ \A i \in 1..Len(leases) :
                  \E j \in 1..Len(lease_db) :
                      /\ Qualifies(lease_db[j], current_time)
                      /\ leases[i].hw_address = lease_db[j].hwaddr
                      /\ leases[i].ip_address = lease_db[j].address
                      /\ int(leases[i].expire) = int(lease_db[j].expire)
            /\ leases = get_leases(qualifying, current_time)

\* a record that expires at the current time and an inactive unexpired one gave no entry
C17_Witness ==
    /\ last.op = "get_leases" /\ current_time = 100
    /\ \E i, j \in 1..Len(lease_db) :
          /\ lease_db[i] = LeaseRow(MacLower, <<"1", "0", "0">>, <<"0">>)
          /\ lease_db[j] = LeaseRow(MacHyphen, <<"2", "0", "0">>, <<"1">>)
    /\ \A i \in 1..Len(last.value[1]) : last.value[1][i].hw_address \notin {MacLower, MacHyphen}

(* C18: get_leases does not raise, and its result is its result on the     *)
(* lease database without the records whose expire or state field does not *)
(* parse: such a record drops no qualifying record before or after it.     *)
C18_MalformedRowsSkipped ==
    last.op = "get_leases" =>
        /\ last.raised = ""
        /\ last.value[1] =
              get_leases(SelectSeq(lease_db, LAMBDA row : ~Unparseable(row)), current_time)

\* qualifying records before and after a record that does not parse are both returned
C18_Witness ==
    /\ last.op = "get_leases" /\ Len(lease_db) = 3
    /\ Qualifies(lease_db[1], current_time) /\ Unparseable(lease_db[2])
    /\ Qualifies(lease_db[3], current_time) /\ lease_db[1].hwaddr # lease_db[3].hwaddr
    /\ lease_db[1].hwaddr # <<>> /\ lease_db[3].hwaddr # <<>>
    /\ Len(last.value[1]) = 2

(* C19: for every text that the address validator accepts, converting it   *)
(* to its ordinal and formatting the ordinal back, as the allocation scan  *)
(* does, gives the same text.                                              *)
C19_AddressRoundTrip ==
    (last.op = "round_trip" /\ _validate_ip_address(last.ip_address)) =>
        last.value = <<last.ip_address>>

(* C21: after a successful add_reservation the stored document is the one  *)
(* that was read with exactly one entry appended at the end of the         *)
(* reservation list of subnet 0: the entry has the lower-cased hardware    *)
(* address given, the address returned (the one given when it is given     *)
(* and is no pool address) and a hostname exactly when a non-empty one is  *)
(* given; the other keys of subnet 0 and all other subnets are unchanged.  *)
C21_AddFrame ==
    (last.op = "add" /\ last.raised = "") =>
        LET before == subnet4_of(last.read)
            after == subnet4_of(config)
            entry == LastStored
        IN  /\ Len(after) = Len(before)
            /\ \A k \in 2..Len(before) : after[k] = before[k]
            /\ DOMAIN after[1] = DOMAIN before[1] \cup {"reservations"}
            /\ \A key \in DOMAIN before[1] \ {"reservations"} : after[1][key] = before[1][key]
            /\ after[1].reservations = Append(dict_get(before[1], "reservations"), entry)
            /\ last.value = <<entry>>
            /\ DOMAIN entry = IF last.hostname # <<>>
                              THEN {"hw_address", "ip_address", "hostname"}
                              ELSE {"hw_address", "ip_address"}
            /\ entry.hw_address = lower(last.hw_address)
            /\ last.hostname # <<>> => entry.hostname = last.hostname
            /\ InReserved(entry.ip_address)
            /\ (last.ip_address # <<>> /\ ~_validate_ip_in_pool(last.read, last.ip_address))
                  => entry.ip_address = last.ip_address

\* a reservation with a hostname was added to a document of two subnets
\* whose subnet 0 had a reservation
C21_Witness ==
    /\ last.op = "add" /\ last.raised = ""
    /\ last.hostname # <<>>
    /\ Len(subnet4_of(last.read)) = 2
    /\ dict_get(subnet4_of(last.read)[1], "reservations") # <<>>
    /\ Len(subnet4_of(config)[1].reservations) = Len(subnet4_of(last.read)[1].reservations) + 1

(* C22: after a successful update_reservation_ip the stored document is    *)
(* the one that was read with the address of one entry set to the new      *)
(* address: the first entry in document order that the identifier          *)
(* identifies by hardware address (case-insensitively) or by address.  Its *)
(* other fields and its position, the number of entries and every other    *)
(* entry are unchanged, and the entry is returned.                         *)
C22_UpdateFrame ==
    (last.op = "update" /\ last.raised = "") =>
        LET hits == IdentifiedEntries(last.read, last.identifier)
            first == FirstOf(hits)
            old == Entry(last.read, first)
        IN  /\ hits # {}
            /\ Entries(config) = Entries(last.read)
            /\ \A e \in Entries(config) \ {first} : Entry(config, e) = Entry(last.read, e)
            /\ DOMAIN Entry(config, first) = DOMAIN old
            /\ \A key \in DOMAIN old \ {"ip_address"} : Entry(config, first)[key] = old[key]
            /\ Entry(config, first).ip_address = last.ip_address
            /\ config = [last.read EXCEPT
                            !.Dhcp4.subnet4[first[1]].reservations[first[2]].ip_address = last.ip_address]

\* the identifier identified two entries, the first of them had another
\* address than the new one, and the update succeeded
C22_Witness ==
    /\ last.op = "update" /\ last.raised = ""
    /\ Cardinality(IdentifiedEntries(last.read, last.identifier)) = 2
    /\ Entry(last.read, FirstOf(IdentifiedEntries(last.read, last.identifier))).ip_address # last.ip_address
    /\ config # last.read

(* C23: from a document in which the address of every reservation lies in  *)
(* 192.168.123.2 .. 192.168.123.49, after any sequence of add_reservation, *)
(* update_reservation_ip and remove_reservation calls made one at a time,  *)
(* with a pool above the reserved range, a pool overlapping it or no pool, *)
(* the address of every reservation lies in that range.                    *)
C23_ReservedRangeKept ==
    \A i \in 1..Len(Listed(config)) : InReserved(Listed(config)[i].ip_address)

\* an update stored a new address next to another reservation, after a call
\* that had changed the document
C23_Witness ==
    /\ last.op = "update" /\ last.raised = "" /\ config # last.read
    /\ calls >= 2
    /\ Len(Listed(config)) >= 2
    /\ C23_ReservedRangeKept

(* C24: in every state reached by two add_reservation,                     *)
(* update_reservation_ip or remove_reservation calls interleaved at their  *)
(* reads of the file and their single write, nothing serializing them, the *)
(* stored single-subnet document has no two reservations with the same     *)
(* hardware address or the same address.                                   *)
C24_UniqueUnderInterleaving ==
    UniqueIn(config)

(* C25: whenever add_reservation, update_reservation_ip or                 *)
(* remove_reservation raises an error to its caller, whatever the outcomes *)
(* of the reads of the file, of the update script (which replaces the file *)
(* or leaves it alone) and of the reads after it, the stored document is   *)
(* the one that was stored before the call.                                *)
C25_FailureMeansNothingStored ==
    (last.op \in {"add", "update", "remove"} /\ last.raised # "") => config = last.read

(* C26: add_reservation fails with the duplicate-MAC error for every       *)
(* accepted hardware address text that denotes the six octets of the       *)
(* hardware address of a stored reservation, also when the two texts       *)
(* differ in the delimiter or in the leading zero of a component; after    *)
(* any sequence of adds made one at a time no two reservations denote the  *)
(* same six octets.                                                        *)
C26_MacIdentityByOctets ==
    LET before == Listed(last.read)
        rs == Listed(config)
    IN  /\ (/\ last.op = "add" /\ _validate_mac_address(last.hw_address)
             /\ \E i \in 1..Len(before) : Octets(before[i].hw_address) = Octets(last.hw_address))
               => last.raised = "DuplicateMac"
        /\ \A i, j \in 1..Len(rs) :
               i # j => Octets(rs[i].hw_address) # Octets(rs[j].hw_address)

====
